---- MODULE Spec2Model ----
(***************************************************************************)
(* State machine of the TouhouGGEZ combat simulation (src/src/main.rs).    *)
(*                                                                         *)
(* Units.  Positions and speeds are the f32 values of the program; the     *)
(* model keeps them on the integers (every constant of the program that    *)
(* touches a position is integral: 350, 100, 25, 5).  std::time::Duration  *)
(* is an integer count; the model counts milliseconds, and the f32 delays  *)
(* of the timers (0.1, 0.5, 1.5, 2.0 seconds) are written in the same      *)
(* unit.  Option<T> is a sequence of length 0 (None) or 1 (Some).          *)
(* Sprites, images, colours and text layout are rendering data and are     *)
(* left out; a Text is modelled by its string.                             *)
(***************************************************************************)
EXTENDS Integers, Sequences, FiniteSets, TLC

VARIABLES
    uis,          \* State.uis: VecDeque<UIMenu>, front first
    last_update,  \* State.last_update: modification date of script.th seen last
    gamestate,    \* State.gamestate
    story,        \* State.story: Vec<StoryLine>, popped from the end
    screen,       \* State.screen
    player,       \* State.player: Option<Player>
    enemy,        \* State.enemy: Option<Enemy>
    texts,        \* State.texts
    particles,    \* State.particles
    script,       \* the file script.th: the configuration it holds
    script_date,  \* the file script.th: its modification date
    status,       \* the process: "running", "quit" or "panicked"
    ticks,        \* Combat ticks run since State::new (observer)
    timer,        \* the Timer of the timer harness
    fired,        \* how often it has been ready (observer)
    elapsed       \* the sum of the deltas it was advanced with (observer)

gamevars == <<uis, last_update, gamestate, story, screen, player, enemy,
              texts, particles, script, script_date, status, ticks>>
timervars == <<timer, fired, elapsed>>
vars == <<uis, last_update, gamestate, story, screen, player, enemy,
          texts, particles, script, script_date, status, ticks,
          timer, fired, elapsed>>

----------------------------------------------------------------------------
(* Bounds of the model *)

\* Combat ticks explored after one State::new.
MaxTicks == 5
\* Modifications of script.th while the game runs.
MaxScriptEdits == 1
\* Steps of 5 the player may walk away from (350, 350) on each axis.
MaxWalk == 1
\* Frame deltas (ms) the host may report.
Deltas == {100, 700}
\* Sets of movement keys held during a tick.
KeySets == {{}, {"A"}, {"W", "S", "D"}}
\* Window sizes: the engine's default and a resized one.
DefaultSize == [width |-> 800, height |-> 600]
WindowSizes == {DefaultSize, [width |-> 400, height |-> 300]}

----------------------------------------------------------------------------
(* Program constants *)

DIR_UP == [x |-> 0, y |-> -1]
DIR_DOWN == [x |-> 0, y |-> 1]
DIR_LEFT == [x |-> -1, y |-> 0]
DIR_RIGHT == [x |-> 1, y |-> 0]

PlayerSpeed == 5
PlayerShotDelay == 100
EnemyShotDelay == 500
EnemyMoveDelay == 1500
ParticleTtl == 2000
ParticleSpeed == 5
PlayerHitbox == 25
EnemyHitbox == 100

MsgDied == "You died! Press R to restart."
MsgWin == "You win! Press R to restart."

----------------------------------------------------------------------------
(* Configuration: what Globals::from_str yields for script.th *)

\* InitData
InitData(amount, health, speed) ==
    [amount |-> amount, health |-> health, speed |-> speed]

\* Globals::default(): the derived Default of every field.
DefaultGlobals ==
    [player |-> [data |-> InitData(0, 0, 0), bullet |-> InitData(0, 0, 0)],
     enemy |-> [data |-> InitData(0, 0, 0), bullet |-> InitData(0, 0, 0)]]

\* A script is either unparseable (from_str panics) or holds Globals.
BadScript == [parsed |-> FALSE, globals |-> DefaultGlobals]

GoodScript(pHealth, pAmount, pBulletSpeed, eHealth, eSpeed, eAmount, eBulletSpeed) ==
    [parsed |-> TRUE,
     globals |->
        [player |-> [data |-> InitData(0, pHealth, 0),
                     bullet |-> InitData(pAmount, 0, pBulletSpeed)],
         enemy |-> [data |-> InitData(0, eHealth, eSpeed),
                    bullet |-> InitData(eAmount, 0, eBulletSpeed)]]]

\* The scripts the model explores.
Scripts ==
    { BadScript,
      GoodScript(1, 2, 150, 1, 0, 1, 250),
      GoodScript(1, 1, 150, 2, 25, 2, 250) }

----------------------------------------------------------------------------
(* Option<T> *)

None == <<>>
Some(v) == <<v>>
IsSome(o) == Len(o) = 1
Unwrap(o) == o[1]

----------------------------------------------------------------------------
(* Timer *)

\* Timer::new
TimerNew(delay) == [time |-> 0, delay |-> delay]

\* Faulty variant of Timer::ready: ready as soon as the period is reached.
TimerReadyInclusive(t, delta) ==
    LET time == t.time + delta
        ready == time >= t.delay
    IN [timer |-> [t EXCEPT !.time = IF ready THEN 0 ELSE time], ready |-> ready]

\* Faulty variant of Timer::ready: the excess over the period is kept.
TimerReadyKeepsExcess(t, delta) ==
    LET time == t.time + delta
        ready == time > t.delay
    IN [timer |-> [t EXCEPT !.time = IF ready THEN time - t.delay ELSE time],
        ready |-> ready]

\* Timer::ready: the timer after the call, and the value returned.
TimerReady(t, delta) ==
    LET time == t.time + delta
        ready == time > t.delay
    IN [timer |-> [t EXCEPT !.time = IF ready THEN 0 ELSE time], ready |-> ready]

----------------------------------------------------------------------------
(* Body, Bullet, Health *)

Point(x, y) == [x |-> x, y |-> y]

\* Body::new (the sprite is rendering data)
BodyNew(position, direction, speed) ==
    [position |-> position, direction |-> direction, speed |-> speed]

\* Bullet::new
BulletNew(direction, speed) ==
    [body |-> BodyNew(Point(0, 0), direction, speed), is_visible |-> FALSE]

\* Bullet::update
BulletUpdate(b) ==
    [b EXCEPT !.body.position =
        Point(@.x + b.body.direction.x * b.body.speed,
              @.y + b.body.direction.y * b.body.speed)]

\* Distance for Point2<f32>, squared: sqrt is monotone and exact on the
\* squares of the integral hitboxes, so d < h iff d*d < h*h.
DistanceSq(a, b) == (a.x - b.x) * (a.x - b.x) + (a.y - b.y) * (a.y - b.y)

\* Faulty variant of Bullet::collided: the boundary of the hitbox counts.
CollidedInclusive(b, other, hitbox_size) ==
    DistanceSq(b.body.position, other) <= hitbox_size * hitbox_size

\* Bullet::collided
Collided(b, other, hitbox_size) ==
    DistanceSq(b.body.position, other) < hitbox_size * hitbox_size

\* Health { health, max_health: health, .. }
HealthNew(health) == [health |-> health, max_health |-> health]

\* Faulty variant: a subtraction that does not saturate.
UncheckedSub(a, b) == a - b

\* u32::saturating_sub
SaturatingSub(a, b) == IF a >= b THEN a - b ELSE 0

\* Health::take_damage (on_hit only prints)
TakeDamage(h, damage) == [h EXCEPT !.health = SaturatingSub(@, damage)]

\* Health::is_alive
IsAlive(h) == h.health > 0

----------------------------------------------------------------------------
(* Spell *)

\* Spell::new
SpellNew(bullet, bullets_size, delay) ==
    [bullets |-> [i \in 1..bullets_size |-> bullet],
     shot_timer |-> TimerNew(delay)]

\* Faulty variant: the last hidden slot instead of the first.
LastHidden(bullets) ==
    IF \E i \in 1..Len(bullets) : ~bullets[i].is_visible
    THEN CHOOSE i \in 1..Len(bullets) :
            /\ ~bullets[i].is_visible
            /\ \A j \in (i + 1)..Len(bullets) : bullets[j].is_visible
    ELSE 0

\* The slot iter_mut().find(|x| !x.is_visible) yields: 0 when there is none.
FirstHidden(bullets) ==
    IF \E i \in 1..Len(bullets) : ~bullets[i].is_visible
    THEN CHOOSE i \in 1..Len(bullets) :
            /\ ~bullets[i].is_visible
            /\ \A j \in 1..(i - 1) : bullets[j].is_visible
    ELSE 0

\* Faulty variant of Spell::spawn: a full pool gets one more slot.
SpawnGrows(spell, delta, position) ==
    LET r == TimerReady(spell.shot_timer, delta)
        i == FirstHidden(spell.bullets)
    IN [bullets |->
            IF r.ready /\ i # 0
            THEN [spell.bullets EXCEPT ![i] =
                    [@ EXCEPT !.body.position = position, !.is_visible = TRUE]]
            ELSE IF r.ready /\ spell.bullets # <<>>
            THEN Append(spell.bullets,
                        [spell.bullets[1] EXCEPT !.body.position = position,
                                                 !.is_visible = TRUE])
            ELSE spell.bullets,
        shot_timer |-> r.timer]

\* Spell::spawn
Spawn(spell, delta, position) ==
    LET r == TimerReady(spell.shot_timer, delta)
        i == FirstHidden(spell.bullets)
    IN [bullets |->
            IF r.ready /\ i # 0
            THEN [spell.bullets EXCEPT ![i] =
                    [@ EXCEPT !.body.position = position, !.is_visible = TRUE]]
            ELSE spell.bullets,
        shot_timer |-> r.timer]

----------------------------------------------------------------------------
(* Particle *)

\* Particle::new
ParticleNew(ttl, position, direction, speed) ==
    [bullet |-> [body |-> BodyNew(position, direction, speed), is_visible |-> TRUE],
     timer |-> TimerNew(ttl)]

\* Faulty variant of Particle::update: a particle goes as soon as its
\* accumulated time reaches its time-to-live.
ParticleUpdateEarly(p, delta) ==
    LET r == TimerReadyInclusive(p.timer, delta)
    IN IF r.ready
       THEN [bullet |-> [p.bullet EXCEPT !.is_visible = FALSE], timer |-> r.timer]
       ELSE [bullet |-> BulletUpdate(p.bullet), timer |-> r.timer]

\* Particle::update
ParticleUpdate(p, delta) ==
    LET r == TimerReady(p.timer, delta)
    IN IF r.ready
       THEN [bullet |-> [p.bullet EXCEPT !.is_visible = FALSE], timer |-> r.timer]
       ELSE [bullet |-> BulletUpdate(p.bullet), timer |-> r.timer]

\* Vec::retain_mut(|particle| { particle.update(ctx); particle.bullet.is_visible })
RECURSIVE RetainParticles(_, _)
RetainParticles(ps, delta) ==
    IF ps = <<>> THEN <<>>
    ELSE LET p == ParticleUpdate(Head(ps), delta)
             rest == RetainParticles(Tail(ps), delta)
         IN IF p.bullet.is_visible THEN <<p>> \o rest ELSE rest

\* Faulty variant: the particle of DIR_LEFT is missing.
DeathParticlesNoLeft(position) ==
    << ParticleNew(ParticleTtl, position, DIR_UP, ParticleSpeed),
       ParticleNew(ParticleTtl, position, DIR_DOWN, ParticleSpeed),
       ParticleNew(ParticleTtl, position, DIR_RIGHT, ParticleSpeed) >>

\* The four particles pushed when an entity dies.
DeathParticles(position) ==
    << ParticleNew(ParticleTtl, position, DIR_UP, ParticleSpeed),
       ParticleNew(ParticleTtl, position, DIR_DOWN, ParticleSpeed),
       ParticleNew(ParticleTtl, position, DIR_LEFT, ParticleSpeed),
       ParticleNew(ParticleTtl, position, DIR_RIGHT, ParticleSpeed) >>

----------------------------------------------------------------------------
(* Player *)

\* Player::new
PlayerNew(health, bullet, bullets_size) ==
    [health |-> HealthNew(health),
     body |-> BodyNew(Point(350, 350), Point(0, 0), PlayerSpeed),
     spell |-> SpellNew(bullet, bullets_size, PlayerShotDelay)]

\* The closure of Player::update on one visible bullet: the bullet and the
\* enemy after it.
PlayerBulletStep(b, en) ==
    LET moved == BulletUpdate(b)
        hit == IsSome(en) /\ Collided(moved, Unwrap(en).body.position, EnemyHitbox)
        after == IF hit THEN [moved EXCEPT !.is_visible = FALSE] ELSE moved
        out == after.body.position.x < 0 \/ after.body.position.y < 0
    IN [bullet |-> IF out THEN [after EXCEPT !.is_visible = FALSE] ELSE after,
        other |-> IF hit
                  THEN Some([Unwrap(en) EXCEPT !.health = TakeDamage(@, 1)])
                  ELSE en]

\* for_each_visible_mut over the slots i..Len, in pool order.
RECURSIVE PlayerBullets(_, _, _)
PlayerBullets(bullets, i, en) ==
    IF i > Len(bullets) THEN [bullets |-> bullets, other |-> en]
    ELSE IF ~bullets[i].is_visible THEN PlayerBullets(bullets, i + 1, en)
    ELSE LET r == PlayerBulletStep(bullets[i], en)
         IN PlayerBullets([bullets EXCEPT ![i] = r.bullet], i + 1, r.other)

\* Player::update: the player and the enemy after it.
PlayerUpdate(p, delta, en) ==
    LET r == PlayerBullets(p.spell.bullets, 1, en)
        spell == Spawn([p.spell EXCEPT !.bullets = r.bullets], delta, p.body.position)
    IN [self |-> [p EXCEPT !.spell = spell], other |-> r.other]

----------------------------------------------------------------------------
(* Enemy *)

\* Enemy::new
EnemyNew(health, speed, bullet, bullets_size) ==
    [health |-> HealthNew(health),
     body |-> BodyNew(Point(350, 100), Point(1, 0), speed),
     spell |-> SpellNew(bullet, bullets_size, EnemyShotDelay),
     directions |-> <<-1, 0, 1, 0, 1, 0, -1, 0>>,
     move_timer |-> TimerNew(EnemyMoveDelay)]

\* Faulty variant: the rotation goes to the right.
RotateRight(v) == IF v = <<>> THEN v ELSE <<v[Len(v)]>> \o SubSeq(v, 1, Len(v) - 1)

\* Vec::rotate_left(1)
RotateLeft(v) == IF v = <<>> THEN v ELSE Tail(v) \o <<Head(v)>>

\* Enemy::move_auto
MoveAuto(e, delta) ==
    LET r == TimerReady(e.move_timer, delta)
        directions == IF r.ready THEN RotateLeft(e.directions) ELSE e.directions
        vel == IF directions = <<>> THEN 0 ELSE Head(directions)
    IN [e EXCEPT !.move_timer = r.timer,
                 !.directions = directions,
                 !.body.position = Point(@.x + vel * e.body.speed, @.y)]

\* The closure of Enemy::update on one visible bullet.
EnemyBulletStep(b, pl, scr) ==
    LET moved == BulletUpdate(b)
        hit == IsSome(pl) /\ Collided(moved, Unwrap(pl).body.position, PlayerHitbox)
        after == IF hit THEN [moved EXCEPT !.is_visible = FALSE] ELSE moved
        out == after.body.position.x < 0 \/ after.body.position.y > scr.height
    IN [bullet |-> IF out THEN [after EXCEPT !.is_visible = FALSE] ELSE after,
        other |-> IF hit
                  THEN Some([Unwrap(pl) EXCEPT !.health = TakeDamage(@, 1)])
                  ELSE pl]

RECURSIVE EnemyBullets(_, _, _, _)
EnemyBullets(bullets, i, pl, scr) ==
    IF i > Len(bullets) THEN [bullets |-> bullets, other |-> pl]
    ELSE IF ~bullets[i].is_visible THEN EnemyBullets(bullets, i + 1, pl, scr)
    ELSE LET r == EnemyBulletStep(bullets[i], pl, scr)
         IN EnemyBullets([bullets EXCEPT ![i] = r.bullet], i + 1, r.other, scr)

\* Enemy::update: the enemy and the player after it.
EnemyUpdate(e, delta, pl, scr) ==
    LET moved == MoveAuto(e, delta)
        r == EnemyBullets(moved.spell.bullets, 1, pl, scr)
        spell == Spawn([moved.spell EXCEPT !.bullets = r.bullets], delta,
                       moved.body.position)
    IN [self |-> [moved EXCEPT !.spell = spell], other |-> r.other]

----------------------------------------------------------------------------
(* State *)

\* Faulty variant of the story built by State::new: a script that failed to
\* load leaves no line to show.
StoryOfNoError(s) ==
    IF s.parsed
    THEN <<"I'm going to kill you!", "The story begins...">>
    ELSE <<>>

\* The story! macro: the lines reversed, so that Vec::pop yields them in order.
StoryOf(s) ==
    IF s.parsed
    THEN <<"I'm going to kill you!", "The story begins...">>
    ELSE <<"script error">>

\* pause_menu(): the entries, front (selected) first.
PauseMenu == <<"Resume", "Reset", "Quit">>

\* State::new: the fields of the State built from script.th as it is now.
\* ctx.gfx.size() is the size of the window, which State.screen follows.
StateNew(s, date, scr) ==
    LET init == IF s.parsed THEN s.globals ELSE DefaultGlobals
    IN [gamestate |-> "Cinematic",
        last_update |-> date,
        screen |-> scr,
        story |-> StoryOf(s),
        uis |-> <<>>,
        player |-> Some(PlayerNew(init.player.data.health,
                                  BulletNew(DIR_UP, init.player.bullet.speed),
                                  init.player.bullet.amount)),
        enemy |-> Some(EnemyNew(init.enemy.data.health,
                                init.enemy.data.speed,
                                BulletNew(DIR_DOWN, init.enemy.bullet.speed),
                                init.enemy.bullet.amount)),
        particles |-> <<>>,
        texts |-> <<>>]

\* The direction a held movement key stands for.
KeyDir(key) ==
    CASE key = "W" -> DIR_UP
      [] key = "S" -> DIR_DOWN
      [] key = "A" -> DIR_LEFT
      [] key = "D" -> DIR_RIGHT

\* on_combat_update, the loop over [W, S, A, D]: the player after it.
RECURSIVE MoveByKeys(_, _, _)
MoveByKeys(pl, keys, pressed) ==
    IF keys = <<>> THEN pl
    ELSE LET key == Head(keys)
             moved ==
                IF key \in pressed /\ IsSome(pl)
                THEN Some([Unwrap(pl) EXCEPT !.body.position =
                            Point(@.x + KeyDir(key).x * Unwrap(pl).body.speed,
                                  @.y + KeyDir(key).y * Unwrap(pl).body.speed)])
                ELSE pl
         IN MoveByKeys(moved, Tail(keys), pressed)

\* Faulty variant of the block on self.player: self.player = None is missing.
PlayerPhaseKeepsDead(st, delta) ==
    IF ~IsSome(st.player) THEN st
    ELSE LET r == PlayerUpdate(Unwrap(st.player), delta, st.enemy)
             p == r.self
         IN IF IsAlive(p.health)
            THEN [st EXCEPT !.player = Some(p), !.enemy = r.other]
            ELSE IF p.spell.bullets = <<>>
            THEN [st EXCEPT !.panicked = TRUE]
            ELSE [st EXCEPT !.player = Some(p),
                            !.enemy = r.other,
                            !.particles = @ \o DeathParticles(p.body.position),
                            !.texts = Append(@, MsgDied)]

\* on_combat_update, the block on self.player.  st holds the fields the tick
\* works on and whether an unwrap() has panicked.
PlayerPhase(st, delta) ==
    IF ~IsSome(st.player) THEN st
    ELSE LET r == PlayerUpdate(Unwrap(st.player), delta, st.enemy)
             p == r.self
         IN IF IsAlive(p.health)
            THEN [st EXCEPT !.player = Some(p), !.enemy = r.other]
            ELSE IF p.spell.bullets = <<>>
            THEN [st EXCEPT !.panicked = TRUE]
            ELSE [st EXCEPT !.player = None,
                            !.enemy = r.other,
                            !.particles = @ \o DeathParticles(p.body.position),
                            !.texts = Append(@, MsgDied)]

\* Faulty variant of the block on self.enemy: self.enemy = None is missing.
EnemyPhaseKeepsDead(st, delta, scr) ==
    IF st.panicked \/ ~IsSome(st.enemy) THEN st
    ELSE LET r == EnemyUpdate(Unwrap(st.enemy), delta, st.player, scr)
             e == r.self
         IN IF IsAlive(e.health)
            THEN [st EXCEPT !.enemy = Some(e), !.player = r.other]
            ELSE IF e.spell.bullets = <<>>
            THEN [st EXCEPT !.panicked = TRUE]
            ELSE [st EXCEPT !.enemy = Some(e),
                            !.player = r.other,
                            !.particles = @ \o DeathParticles(e.body.position),
                            !.texts = Append(@, MsgWin)]

\* on_combat_update, the block on self.enemy.
EnemyPhase(st, delta, scr) ==
    IF st.panicked \/ ~IsSome(st.enemy) THEN st
    ELSE LET r == EnemyUpdate(Unwrap(st.enemy), delta, st.player, scr)
             e == r.self
         IN IF IsAlive(e.health)
            THEN [st EXCEPT !.enemy = Some(e), !.player = r.other]
            ELSE IF e.spell.bullets = <<>>
            THEN [st EXCEPT !.panicked = TRUE]
            ELSE [st EXCEPT !.enemy = None,
                            !.player = r.other,
                            !.particles = @ \o DeathParticles(e.body.position),
                            !.texts = Append(@, MsgWin)]

\* on_combat_update, the particle pass.
ParticlePhase(st, delta) ==
    IF st.panicked THEN st
    ELSE [st EXCEPT !.particles = RetainParticles(@, delta)]

\* State::on_combat_update
CombatUpdate(pl, en, txs, parts, scr, delta, pressed) ==
    LET st0 == [panicked |-> FALSE,
                player |-> MoveByKeys(pl, <<"W", "S", "A", "D">>, pressed),
                enemy |-> en,
                texts |-> txs,
                particles |-> parts]
    IN ParticlePhase(EnemyPhase(PlayerPhase(st0, delta), delta, scr), delta)

\* Faulty variant: the simulation also runs while the game is paused.
RunsCombatWhenPaused(gs) == gs # "Cinematic"

\* The match of State::update: the states in which on_combat_update runs.
RunsCombat(gs) == gs = "Combat"

\* Faulty variant: Combat only once pop() finds the story empty.
ConfirmCinematicPopOnly(st) ==
    [story |-> IF st = <<>> THEN st ELSE SubSeq(st, 1, Len(st) - 1),
     gamestate |-> IF st = <<>> THEN "Combat" ELSE "Cinematic"]

\* key_down_event, the arm of a confirm key in Cinematic:
\* if self.story.pop().is_none() || self.story.is_empty() { Combat }
ConfirmCinematic(st) ==
    LET popped == IF st = <<>> THEN st ELSE SubSeq(st, 1, Len(st) - 1)
    IN [story |-> popped,
        gamestate |-> IF st = <<>> \/ popped = <<>> THEN "Combat" ELSE "Cinematic"]

\* Faulty variant: the Escape arm does not look at the game state.
EscapeAppliesAlways(gs, repeated) == ~repeated

\* key_down_event, the guard of the Escape arm.
EscapeApplies(gs, repeated) == ~repeated /\ gs # "Paused"

\* Faulty variant: Resume always enters Combat.
ResumeStateCombat(st) == "Combat"

\* pause_menu, Resume: the state the game resumes in.
ResumeState(st) == IF st = <<>> THEN "Combat" ELSE "Cinematic"

----------------------------------------------------------------------------
(* Actions *)

\* Faulty variant of restart: the menus and the messages are not rebuilt.
RestartFromKeepsUi(s, date) ==
    LET n == StateNew(s, date, screen)
    IN /\ last_update' = n.last_update
       /\ gamestate' = n.gamestate
       /\ story' = n.story
       /\ screen' = n.screen
       /\ player' = n.player
       /\ enemy' = n.enemy
       /\ particles' = n.particles
       /\ ticks' = 0
       /\ script' = s
       /\ script_date' = date
       /\ UNCHANGED <<uis, texts, status>>

\* *self = Self::new(ctx), with script.th holding s, modified at `date`.
RestartFrom(s, date) ==
    LET n == StateNew(s, date, screen)
    IN /\ uis' = n.uis
       /\ last_update' = n.last_update
       /\ gamestate' = n.gamestate
       /\ story' = n.story
       /\ screen' = n.screen
       /\ player' = n.player
       /\ enemy' = n.enemy
       /\ texts' = n.texts
       /\ particles' = n.particles
       /\ ticks' = 0
       /\ script' = s
       /\ script_date' = date
       /\ UNCHANGED status

\* State::restart, on a key or a menu entry: script.th is as the last tick
\* found it.
Restart == RestartFrom(script, script_date)

\* State::update with frame delta `delta` and the movement keys `pressed` held,
\* finding script.th as `found`: rewritten since the last tick (Some, with
\* a later modification date) or not (None).
Update(delta, pressed, found) ==
    /\ status = "running"
    /\ IF IsSome(found)
       THEN RestartFrom(Unwrap(found), script_date + 1)
       ELSE IF RunsCombat(gamestate)
       THEN LET r == CombatUpdate(player, enemy, texts, particles, screen,
                                  delta, pressed)
            IN IF r.panicked
               THEN /\ status' = "panicked"
                    /\ UNCHANGED <<uis, last_update, gamestate, story, screen,
                                   player, enemy, texts, particles, script,
                                   script_date, ticks>>
               ELSE /\ player' = r.player
                    /\ enemy' = r.enemy
                    /\ texts' = r.texts
                    /\ particles' = r.particles
                    /\ ticks' = ticks + 1
                    /\ UNCHANGED <<uis, last_update, gamestate, story, screen,
                                   script, script_date, status>>
       ELSE UNCHANGED gamevars
    /\ UNCHANGED timervars

\* VecDeque: pop_front then push_back, and pop_back then push_front.
RotateFront(m) == IF m = <<>> THEN m ELSE Tail(m) \o <<Head(m)>>
RotateBack(m) == IF m = <<>> THEN m ELSE <<m[Len(m)]>> \o SubSeq(m, 1, Len(m) - 1)

\* The action of the pause-menu entry `entry` (pause_menu).
MenuAction(entry) ==
    CASE entry = "Resume" ->
            /\ uis' = Tail(uis)
            /\ gamestate' = ResumeState(story)
            /\ UNCHANGED <<last_update, story, screen, player, enemy, texts,
                           particles, script, script_date, status, ticks>>
      [] entry = "Reset" -> Restart
      [] entry = "Quit" ->
            /\ status' = "quit"
            /\ UNCHANGED <<uis, last_update, gamestate, story, screen, player,
                           enemy, texts, particles, script, script_date, ticks>>

ConfirmKeys == {"Return", "Space"}
NextKeys == {"Down", "Right", "S", "D"}
PrevKeys == {"Up", "Left", "W", "A"}

\* State::key_down_event
KeyDownEvent(key, repeated) ==
    /\ status = "running"
    /\ IF key \in ConfirmKeys /\ ~repeated
       THEN CASE gamestate = "Cinematic" ->
                    /\ story' = ConfirmCinematic(story).story
                    /\ gamestate' = ConfirmCinematic(story).gamestate
                    /\ UNCHANGED <<uis, last_update, screen, player, enemy, texts,
                                   particles, script, script_date, status, ticks>>
              [] gamestate = "Paused" ->
                    IF uis[1] # <<>> THEN MenuAction(Head(uis[1]))
                    ELSE UNCHANGED gamevars
              [] OTHER -> UNCHANGED gamevars
       ELSE IF key = "Escape" /\ EscapeApplies(gamestate, repeated)
       THEN /\ gamestate' = "Paused"
            /\ uis' = <<PauseMenu>> \o uis
            /\ UNCHANGED <<last_update, story, screen, player, enemy, texts,
                           particles, script, script_date, status, ticks>>
       ELSE IF key = "R" /\ ~repeated
       THEN Restart
       ELSE IF gamestate = "Paused"
       THEN /\ uis' = IF key \in NextKeys THEN [uis EXCEPT ![1] = RotateFront(@)]
                      ELSE IF key \in PrevKeys THEN [uis EXCEPT ![1] = RotateBack(@)]
                      ELSE uis
            /\ UNCHANGED <<last_update, gamestate, story, screen, player, enemy,
                           texts, particles, script, script_date, status, ticks>>
       ELSE UNCHANGED gamevars
    /\ UNCHANGED timervars

\* Faulty variant of resize_event: the State is rebuilt for the new window.
ResizeEventRebuilds(size) ==
    /\ status = "running"
    /\ screen' = [width |-> size.width, height |-> size.height]
    /\ LET n == StateNew(script, script_date, screen)
       IN /\ uis' = n.uis
          /\ gamestate' = n.gamestate
          /\ story' = n.story
          /\ player' = n.player
          /\ enemy' = n.enemy
          /\ texts' = n.texts
          /\ particles' = n.particles
    /\ ticks' = 0
    /\ UNCHANGED <<last_update, script, script_date, status>>
    /\ UNCHANGED timervars

\* State::resize_event
ResizeEvent(size) ==
    /\ status = "running"
    /\ screen' = [width |-> size.width, height |-> size.height]
    /\ UNCHANGED <<uis, last_update, gamestate, story, player, enemy, texts,
                   particles, script, script_date, status, ticks>>
    /\ UNCHANGED timervars

----------------------------------------------------------------------------
(* The game: every handler, with bounded inputs *)

\* main: State::new on the window the engine opens, script.th holding s.
Built(s) ==
    /\ script = s
    /\ script_date = 0
    /\ status = "running"
    /\ ticks = 0
    /\ LET n == StateNew(s, 0, DefaultSize)
       IN /\ uis = n.uis
          /\ last_update = n.last_update
          /\ gamestate = n.gamestate
          /\ story = n.story
          /\ screen = n.screen
          /\ player = n.player
          /\ enemy = n.enemy
          /\ texts = n.texts
          /\ particles = n.particles

Init ==
    /\ \E s \in Scripts : Built(s)
    /\ timer = TimerNew(0)
    /\ fired = 0
    /\ elapsed = 0

\* The keys the model presses: one or two of each arm of key_down_event.
KeyCodes == {"Return", "Space", "Escape", "R", "Down", "Up", "X"}

\* The player stays within MaxWalk steps of where Player::new puts it.
InWalk(pl) ==
    IsSome(pl) =>
        /\ Unwrap(pl).body.position.x \in
              (350 - MaxWalk * PlayerSpeed)..(350 + MaxWalk * PlayerSpeed)
        /\ Unwrap(pl).body.position.y \in
              (350 - MaxWalk * PlayerSpeed)..(350 + MaxWalk * PlayerSpeed)

\* A tick the bounds admit: at most MaxTicks Combat ticks, within the walk.
TickInBounds(pressed) ==
    gamestate = "Combat" =>
        /\ ticks < MaxTicks
        /\ InWalk(MoveByKeys(player, <<"W", "S", "A", "D">>, pressed))

Next ==
    \/ \E delta \in Deltas, pressed \in KeySets :
            TickInBounds(pressed) /\ Update(delta, pressed, None)
    \/ \E delta \in Deltas, s \in Scripts :
            script_date < MaxScriptEdits /\ Update(delta, {}, Some(s))
    \/ \E key \in KeyCodes, repeated \in BOOLEAN : KeyDownEvent(key, repeated)
    \/ \E size \in WindowSizes : ResizeEvent(size)

Spec == Init /\ [][Next]_vars

----------------------------------------------------------------------------
(* The timer harness: one Timer advanced with deltas that do not exceed *)
(* its period *)

\* Sum of the deltas explored.
MaxElapsed == 24
\* Periods explored, in the unit of the deltas.
TimerPeriods == {5, 8}

TimerInit ==
    /\ Built(BadScript)
    /\ \E period \in TimerPeriods : timer = TimerNew(period)
    /\ fired = 0
    /\ elapsed = 0

\* One call of Timer::ready with ctx.time.delta() = delta.
TimerAdvance(delta) ==
    /\ elapsed + delta <= MaxElapsed
    /\ LET r == TimerReady(timer, delta)
       IN /\ timer' = r.timer
          /\ fired' = IF r.ready THEN fired + 1 ELSE fired
    /\ elapsed' = elapsed + delta
    /\ UNCHANGED gamevars

TimerNext == \E delta \in 0..timer.delay : TimerAdvance(delta)

SpecTimer == TimerInit /\ [][TimerNext]_vars

----------------------------------------------------------------------------
(* The firing scenario: no key held, every tick with a delta equal to the *)
(* player's fire period, 0.1 s *)

\* Combat ticks of the scenario.
ScenarioTicks == 11

\* player health, pool, bullet speed; enemy health, speed, pool, bullet speed
ScenarioScripts ==
    { GoodScript(3, amount, speed, 200, espeed, 1, 20) :
        amount \in {1, 6}, speed \in {5, 10, 16, 17, 40}, espeed \in {0, 20} }

ScenarioInit ==
    /\ \E s \in ScenarioScripts : Built(s)
    /\ timer = TimerNew(0)
    /\ fired = 0
    /\ elapsed = 0

ScenarioNext ==
    \/ KeyDownEvent("Return", FALSE)
    \/ ticks < ScenarioTicks /\ Update(PlayerShotDelay, {}, None)

SpecScenario == ScenarioInit /\ [][ScenarioNext]_vars

----------------------------------------------------------------------------
(* Steps of the handlers, as the properties below name them *)

\* A host tick that finds script.th unchanged.
TickStep == \E delta \in Deltas, pressed \in KeySets : Update(delta, pressed, None)

\* A host tick that finds script.th rewritten, and so restarts.
ReloadStep == \E delta \in Deltas, s \in Scripts : Update(delta, {}, Some(s))

\* A confirm key (Return or Space) goes down, not repeated.
ConfirmStep == \E key \in ConfirmKeys : KeyDownEvent(key, FALSE)

\* The menu key goes down, not repeated.
EscapeStep == KeyDownEvent("Escape", FALSE)

\* The entry `entry` of the pause menu is selected and confirmed.
SelectStep(entry) ==
    /\ gamestate = "Paused"
    /\ uis # <<>>
    /\ uis[1] # <<>>
    /\ Head(uis[1]) = entry
    /\ ConfirmStep

\* The restart key goes down, not repeated, or Reset is chosen in the menu.
RestartStep == KeyDownEvent("R", FALSE) \/ SelectStep("Reset")

Bullets(e) == Unwrap(e).spell.bullets
AnyVisible(e) == \E i \in 1..Len(Bullets(e)) : Bullets(e)[i].is_visible

----------------------------------------------------------------------------
(* C1 *)

\* C1: a host tick taken while gamestate is Cinematic or Paused, and that
\* triggers no restart, changes neither the player, the enemy (bullet slots
\* and timers included), the particle list nor the message list.
C1_InertOutsideCombat ==
    [][(gamestate \in {"Cinematic", "Paused"} /\ TickStep)
          => UNCHANGED <<player, enemy, texts, particles>>]_vars

\* A paused game in the middle of a fight: bullets in flight, particles alive.
C1_Witness ==
    /\ gamestate = "Paused"
    /\ status = "running"
    /\ ticks > 0
    /\ particles # <<>>
    /\ IsSome(enemy)
    /\ AnyVisible(enemy)

----------------------------------------------------------------------------
(* C2 *)

\* C2: at every tick boundary after a Combat tick, no entity whose health is
\* 0 is still on the roster: an entity whose health reached 0 in a tick is
\* removed by the end of that tick.
C2_DeadRemovedSameTick ==
    ticks > 0 =>
        /\ IsSome(player) => IsAlive(Unwrap(player).health)
        /\ IsSome(enemy) => IsAlive(Unwrap(enemy).health)

----------------------------------------------------------------------------
(* C3 *)

\* C3: once the State is built, no per-tick update panics, whatever the
\* script (the fallback defaults included), the inputs and the deltas.
C3_NoTickPanics == status # "panicked"

----------------------------------------------------------------------------
(* C4 *)

\* C4, as claimed: advanced with deltas none of which exceeds the period P,
\* summing to S, the timer has been ready floor(S / P) times.
C4_FiresFloor == fired = elapsed \div timer.delay

\* C4, amended: a firing takes more than P of accumulated time and at most
\* 2 P, and discards the excess; so with S the sum of the deltas and t the
\* time accumulated since the last firing, fired * P <= S - t <= 2 * P * fired,
\* strictly on the left once the timer has fired, and the count is at most
\* floor(S / P).
C4_FiringBounds ==
    LET P == timer.delay
        used == elapsed - timer.time
    IN /\ timer.time \in 0..P
       /\ fired * P <= used
       /\ fired > 0 => fired * P < used
       /\ used <= 2 * P * fired
       /\ fired <= elapsed \div P

\* Two periods have gone by and the timer has fired once.
C4_Witness ==
    /\ fired = 1
    /\ elapsed = 2 * timer.delay
    /\ timer.time > 0

----------------------------------------------------------------------------
(* C5 *)

Slot(i) == Bullets(player)[i]
\* No player bullet has hit the enemy.
NoCollision ==
    IsSome(enemy) /\ Unwrap(enemy).health.health = Unwrap(enemy).health.max_health
ShotSpeed == Slot(1).body.speed

\* C5, as claimed: after exactly one tick of 0.1 s a bullet of the player's
\* pool is visible at (350, 350); nine ticks later, if nothing collided, its
\* y is down by nine times its speed and it is still visible.
C5_FiresOnFirstTick ==
    IsSome(player) =>
        /\ ticks = 1 =>
              \E i \in 1..Len(Bullets(player)) :
                  /\ Slot(i).is_visible
                  /\ Slot(i).body.position = Point(350, 350)
        /\ (ticks = 10 /\ NoCollision) =>
              /\ Slot(1).is_visible
              /\ Slot(1).body.position = Point(350, 350 - 9 * ShotSpeed)

\* C5, amended: the timer is ready only when the accumulated time exceeds the
\* period, so no bullet is visible after one tick and the first one appears
\* at (350, 350) after exactly two; nine ticks later, if nothing collided and
\* nine times its speed does not take it above y = 0, its y is down by nine
\* times its speed and it is still visible.
C5_FiresOnSecondTick ==
    IsSome(player) =>
        /\ ticks = 1 => ~AnyVisible(player)
        /\ ticks = 2 =>
              /\ Slot(1).is_visible
              /\ Slot(1).body.position = Point(350, 350)
              /\ \A i \in 2..Len(Bullets(player)) : ~Slot(i).is_visible
        /\ (ticks = 11 /\ NoCollision /\ 9 * ShotSpeed <= 350) =>
              /\ Slot(1).is_visible
              /\ Slot(1).body.position = Point(350, 350 - 9 * ShotSpeed)

\* Eleven ticks in, the first bullet is nine moves up and still in flight.
C5_Witness ==
    /\ ticks = 11
    /\ IsSome(player)
    /\ NoCollision
    /\ ShotSpeed > 0
    /\ Slot(1).is_visible
    /\ Slot(1).body.position = Point(350, 350 - 9 * ShotSpeed)

----------------------------------------------------------------------------
(* C6 *)

\* What script.th configures, Globals::default() when it does not parse.
Configured == IF script.parsed THEN script.globals ELSE DefaultGlobals

AllHidden(e) == \A i \in 1..Len(Bullets(e)) : ~Bullets(e)[i].is_visible

\* The state a fresh State::new leaves.
Fresh ==
    /\ gamestate = "Cinematic"
    /\ Len(story) = IF script.parsed THEN 2 ELSE 1
    /\ uis = <<>>
    /\ particles = <<>>
    /\ texts = <<>>
    /\ IsSome(player)
    /\ IsSome(enemy)
    /\ Unwrap(player).health.health = Configured.player.data.health
    /\ Unwrap(player).health.max_health = Configured.player.data.health
    /\ Unwrap(enemy).health.health = Configured.enemy.data.health
    /\ Unwrap(enemy).health.max_health = Configured.enemy.data.health
    /\ Unwrap(player).body.position = Point(350, 350)
    /\ Unwrap(enemy).body.position = Point(350, 100)
    /\ Len(Bullets(player)) = Configured.player.bullet.amount
    /\ Len(Bullets(enemy)) = Configured.enemy.bullet.amount
    /\ AllHidden(player)
    /\ AllHidden(enemy)
    /\ Unwrap(player).spell.shot_timer.time = 0
    /\ Unwrap(enemy).spell.shot_timer.time = 0
    /\ Unwrap(enemy).move_timer.time = 0

\* C6: a restart, by the restart key or by the Reset entry of the pause menu,
\* leaves a fresh initial state whatever the state before it: Cinematic, the
\* full story, player and enemy present at full health, every bullet slot
\* hidden, every timer at zero, no particle, no message, no menu.
C6_RestartIsFresh == [][RestartStep => Fresh']_vars

\* Reset is selected in the pause menu of a game that has been fought: an
\* entity is gone, its message and its particles are on the screen.
C6_Witness ==
    /\ gamestate = "Paused"
    /\ status = "running"
    /\ Head(uis[1]) = "Reset"
    /\ texts # <<>>
    /\ particles # <<>>
    /\ player = None

----------------------------------------------------------------------------
(* C7 *)

\* C7: in Cinematic a confirm key that is not a repeat removes exactly one
\* story line (the last of the Vec), and the state becomes Combat exactly when
\* that leaves the queue empty (or the queue was empty already); otherwise it
\* stays Cinematic.
C7_ConfirmAdvancesStory ==
    [][(gamestate = "Cinematic" /\ ConfirmStep) =>
          IF story = <<>>
          THEN story' = <<>> /\ gamestate' = "Combat"
          ELSE /\ story' = SubSeq(story, 1, Len(story) - 1)
               /\ gamestate' = IF Len(story) = 1 THEN "Combat" ELSE "Cinematic"]_vars

\* One of two lines has been confirmed and the story is still on.
C7_Witness ==
    /\ gamestate = "Cinematic"
    /\ status = "running"
    /\ script.parsed
    /\ Len(story) = 1

----------------------------------------------------------------------------
(* C8 *)

\* C8: the menu key, not repeated, in Cinematic or Combat sets the state to
\* Paused and pushes one pause menu, and changes nothing else; in Paused it
\* changes nothing at all.
C8_EscapePausesOnce ==
    [][EscapeStep =>
          IF gamestate = "Paused"
          THEN UNCHANGED vars
          ELSE /\ gamestate' = "Paused"
               /\ uis' = <<PauseMenu>> \o uis
               /\ Len(uis') = Len(uis) + 1
               /\ UNCHANGED <<story, screen, player, enemy, texts,
                              particles>>]_vars

\* Paused in the middle of a fight, one menu on the stack.
C8_Witness ==
    /\ gamestate = "Paused"
    /\ status = "running"
    /\ Len(uis) = 1
    /\ ticks > 0
    /\ IsSome(player)
    /\ AnyVisible(player)

----------------------------------------------------------------------------
(* C9 *)

\* C9: selecting Resume leaves Paused for Combat when the story queue is
\* empty and for Cinematic when lines remain, removes the pause menu, and
\* changes no entity, pool, timer, particle, message or story line.
C9_ResumeReturns ==
    [][SelectStep("Resume") =>
          /\ gamestate' = IF story = <<>> THEN "Combat" ELSE "Cinematic"
          /\ uis' = Tail(uis)
          /\ uis' = <<>>
          /\ UNCHANGED <<story, screen, player, enemy, texts, particles>>]_vars

\* Resume is selected in a game paused during the story.
C9_Witness ==
    /\ gamestate = "Paused"
    /\ status = "running"
    /\ Head(uis[1]) = "Resume"
    /\ story # <<>>

----------------------------------------------------------------------------
(* C10 *)

\* The message pushed when an entity is removed; only a restart clears it.
Mentions(msg) == \E i \in 1..Len(texts) : texts[i] = msg

\* C10: an entity removed on its death stays absent until a restart: while
\* its message stands (no restart since the removal) it is absent, and every
\* step that makes an absent entity present is a restart (key, menu entry,
\* rewritten script).
C10_DeathIsFinal ==
    /\ []((Mentions(MsgDied) => player = None) /\ (Mentions(MsgWin) => enemy = None))
    /\ [][((player = None /\ player' # None) \/ (enemy = None /\ enemy' # None))
            => (RestartStep \/ ReloadStep)]_vars

\* The player was removed and has stayed away for as long as its particles
\* lived, with the enemy still fighting.
C10_Witness ==
    /\ player = None
    /\ Mentions(MsgDied)
    /\ particles = <<>>
    /\ IsSome(enemy)
    /\ gamestate = "Combat"

----------------------------------------------------------------------------
(* The duel: no key held, the window as opened, every tick longer than the *)
(* fire periods of both sides, fought until the enemy's health is used up  *)

\* Combat ticks of the duel.
DuelTicks == 205
\* Frame deltas (ms) of the duel: both exceed the fire periods 0.1 s and 0.5 s.
DuelDeltas == {600, 700}

\* player health 1, pool 2, bullet speed 150; enemy speed 5, pool 1.  An enemy
\* bullet of speed 250 reaches the player's row, one of speed 1000 flies past.
DuelScripts ==
    { GoodScript(1, 2, 150, health, 5, 1, speed) :
        health \in {1, 2, 200}, speed \in {250, 1000} }

DuelInit ==
    /\ \E s \in DuelScripts : Built(s)
    /\ timer = TimerNew(0)
    /\ fired = 0
    /\ elapsed = 0

\* A host tick of the duel.
DuelTick(delta) == Update(delta, {}, None)

DuelNext ==
    \/ KeyDownEvent("Return", FALSE)
    \/ \E delta \in DuelDeltas : ticks < DuelTicks /\ DuelTick(delta)

SpecDuel == DuelInit /\ [][DuelNext]_vars

----------------------------------------------------------------------------
(* C11 *)

Cardinals == <<DIR_UP, DIR_DOWN, DIR_LEFT, DIR_RIGHT>>

\* Where a bullet stands once it has advanced by one step.
Advanced(b) ==
    Point(b.body.position.x + b.body.direction.x * b.body.speed,
          b.body.position.y + b.body.direction.y * b.body.speed)

\* The visible bullets of a pool that, advanced, are closer to `target` than
\* `radius`.
Colliding(bullets, target, radius) ==
    { i \in 1..Len(bullets) :
        /\ bullets[i].is_visible
        /\ LET p == Advanced(bullets[i])
           IN (p.x - target.x) * (p.x - target.x)
                + (p.y - target.y) * (p.y - target.y) < radius * radius }

\* The particles of ps whose time-to-live a tick of `delta` does not use up.
Outlive(ps, delta) ==
    Cardinality({ i \in 1..Len(ps) : ps[i].timer.time + delta <= ps[i].timer.delay })

\* ps[from + 1 .. from + 4] are the four particles of a death at `position`,
\* one per cardinal direction, aged by the tick that created them.
RingAt(ps, from, position, delta) ==
    \A j \in 1..4 :
        LET p == ps[from + j]
            d == Cardinals[j]
        IN /\ p.bullet.is_visible
           /\ p.bullet.body.direction = d
           /\ p.bullet.body.position =
                 Point(position.x + d.x * p.bullet.body.speed,
                       position.y + d.y * p.bullet.body.speed)
           /\ p.timer = [time |-> delta, delay |-> ParticleTtl]

\* What a Combat tick of the duel does to the roster, the messages and the
\* particles.
DeathEffects(delta) ==
    LET pdies == IsSome(player) /\ Unwrap(player).health.health = 0
        hits == IF IsSome(player) /\ IsSome(enemy)
                THEN Cardinality(Colliding(Bullets(player),
                                           Unwrap(enemy).body.position, EnemyHitbox))
                ELSE 0
        edies == IsSome(enemy) /\ hits >= Unwrap(enemy).health.health
        kept == Outlive(particles, delta)
    IN /\ (player' = None) <=> (player = None \/ pdies)
       /\ (enemy' = None) <=> (enemy = None \/ edies)
       /\ IsSome(enemy') =>
             Unwrap(enemy').health.health = Unwrap(enemy).health.health - hits
       /\ texts' = texts \o (IF pdies THEN <<MsgDied>> ELSE <<>>)
                         \o (IF edies THEN <<MsgWin>> ELSE <<>>)
       /\ Len(particles') = kept + (IF pdies THEN 4 ELSE 0) + (IF edies THEN 4 ELSE 0)
       /\ pdies => RingAt(particles', kept, Unwrap(player).body.position, delta)
       /\ edies => RingAt(particles', kept + (IF pdies THEN 4 ELSE 0),
                          MoveAuto(Unwrap(enemy), delta).body.position, delta)

\* The player bullets that have hit by the end of tick `t` of the duel: the
\* first one is fired in tick 1 and lands in tick 3, then one lands per tick.
DuelHits(t) == IF t > 2 THEN t - 2 ELSE 0

\* The player has not been hit.
Unhurt ==
    IsSome(player) /\ Unwrap(player).health.health = Unwrap(player).health.max_health

\* C11: the tick that removes an entity creates exactly four particles at the
\* entity's last position, one per cardinal direction (up, down, left, right),
\* all with the same time-to-live, and appends exactly one message, the loss
\* for the player and the win for the enemy; every colliding player bullet
\* takes one point off the enemy's health, and the enemy is removed by the hit
\* that uses its health up (the 200th for health 200), not before.
C11_DeathEffects ==
    /\ [][\A delta \in DuelDeltas :
            (gamestate = "Combat" /\ DuelTick(delta)) => DeathEffects(delta)]_vars
    /\ [](Unhurt =>
            IF IsSome(enemy)
            THEN /\ DuelHits(ticks) < Unwrap(enemy).health.max_health
                 /\ Unwrap(enemy).health.health =
                       Unwrap(enemy).health.max_health - DuelHits(ticks)
            ELSE DuelHits(ticks) >= Configured.enemy.data.health)

\* The enemy of health 200 has just been removed by the 200th hit: its four
\* particles and its message are there.
C11_Witness ==
    /\ Configured.enemy.data.health = 200
    /\ DuelHits(ticks) = 200
    /\ enemy = None
    /\ Unhurt
    /\ texts = <<MsgWin>>
    /\ Len(particles) = 4

----------------------------------------------------------------------------
(* The pool harness: the player's Spell as State::new builds it, with the  *)
(* two operations the program performs on its slots                        *)

\* A script with a player pool of three slots.
PoolScript == GoodScript(1, 3, 150, 1, 0, 1, 250)
\* The deltas spawn is called with (ms), around the fire period 0.1 s.
PoolDeltas == {60, 100}
\* The shooter's positions spawn is called with.
PoolPositions == {Point(350, 350), Point(345, 350)}

PoolInit ==
    /\ Built(PoolScript)
    /\ timer = TimerNew(0)
    /\ fired = 0
    /\ elapsed = 0

\* self.spell.spawn(ctx, position) with ctx.time.delta() = delta.
PoolSpawn(delta, position) ==
    /\ player' = Some([Unwrap(player) EXCEPT !.spell = Spawn(@, delta, position)])
    /\ UNCHANGED <<uis, last_update, gamestate, story, screen, enemy, texts,
                   particles, script, script_date, status, ticks>>
    /\ UNCHANGED timervars

\* bullet.is_visible = false on the visible slot i, as a collision or the
\* edge of the screen retires it.
PoolRetire(i) ==
    /\ i \in 1..Len(Bullets(player))
    /\ Bullets(player)[i].is_visible
    /\ player' = Some([Unwrap(player) EXCEPT !.spell.bullets[i].is_visible = FALSE])
    /\ UNCHANGED <<uis, last_update, gamestate, story, screen, enemy, texts,
                   particles, script, script_date, status, ticks>>
    /\ UNCHANGED timervars

PoolNext ==
    \/ \E delta \in PoolDeltas, position \in PoolPositions : PoolSpawn(delta, position)
    \/ \E i \in 1..Len(Bullets(player)) : PoolRetire(i)

SpecPool == PoolInit /\ [][PoolNext]_vars

----------------------------------------------------------------------------
(* C12 *)

\* The slots of a pool that are hidden.
HiddenSlots(bullets) == { i \in 1..Len(bullets) : ~bullets[i].is_visible }

\* What spawn(delta, position) does to the player's pool.
SpawnEffect(delta, position) ==
    LET old == Bullets(player)
        new == Bullets(player')
        due == Unwrap(player).spell.shot_timer.time + delta
                 > Unwrap(player).spell.shot_timer.delay
    IN /\ Len(new) = Len(old)
       /\ IF due /\ HiddenSlots(old) # {}
          THEN \E h \in HiddenSlots(old) :
                  /\ \A j \in HiddenSlots(old) : h <= j
                  /\ new[h].is_visible
                  /\ new[h].body.position = position
                  /\ new[h].body.direction = old[h].body.direction
                  /\ new[h].body.speed = old[h].body.speed
                  /\ \A i \in 1..Len(old) : i # h => new[i] = old[i]
          ELSE new = old

\* C12: when the cooldown timer fires and a slot is hidden, spawn makes
\* visible exactly the first hidden slot in pool order, puts it at the
\* shooter's position and leaves every other slot as it was (of Hidden,
\* Visible, Hidden the first); when every slot is visible, or the timer does
\* not fire, spawn changes no slot.
C12_SpawnRecycles ==
    [][\A delta \in PoolDeltas, position \in PoolPositions :
          PoolSpawn(delta, position) => SpawnEffect(delta, position)]_vars

\* Every slot has been in use: the third has been retired where it was
\* spawned, the first has been spawned again since, elsewhere than the second.
C12_Witness ==
    /\ Bullets(player)[1].is_visible
    /\ Bullets(player)[2].is_visible
    /\ ~Bullets(player)[3].is_visible
    /\ Bullets(player)[3].body.position = Point(345, 350)
    /\ Bullets(player)[2].body.position = Point(345, 350)
    /\ Bullets(player)[1].body.position = Point(350, 350)
    /\ Unwrap(player).spell.shot_timer.time = 0

----------------------------------------------------------------------------
(* C13 *)

\* The number of visible slots of the pool of entity e.
VisibleCount(e) == Cardinality({ i \in 1..Len(Bullets(e)) : Bullets(e)[i].is_visible })

\* C13: between restarts every pool has exactly the number of slots it was
\* built with, the amount script.th configured at the last State::new, and
\* never more visible slots than that.
C13_PoolFixed ==
    /\ IsSome(player) =>
          /\ Len(Bullets(player)) = Configured.player.bullet.amount
          /\ VisibleCount(player) <= Configured.player.bullet.amount
    /\ IsSome(enemy) =>
          /\ Len(Bullets(enemy)) = Configured.enemy.bullet.amount
          /\ VisibleCount(enemy) <= Configured.enemy.bullet.amount

\* The player's pool of one slot was full when the cooldown timer last fired:
\* the timer has just been reset, and the only bullet was in flight already.
C13_Witness ==
    /\ gamestate = "Combat"
    /\ IsSome(player)
    /\ Configured.player.bullet.amount = 1
    /\ Bullets(player)[1].is_visible
    /\ Bullets(player)[1].body.position.y < Unwrap(player).body.position.y - PlayerSpeed
    /\ Unwrap(player).spell.shot_timer.time = 0

----------------------------------------------------------------------------
(* C14 *)

\* A point the retirement at the edges of the screen leaves alone.
Inside(p, scr) == p.x >= 0 /\ p.y >= 0 /\ p.y <= scr.height

\* The slots `hit` of the pool `old` were consumed: at the end of the tick
\* each is hidden, or visible again only because spawn put it at `muzzle`.
\* A visible slot that hit nothing and stays inside the screen has advanced
\* and is still visible.
PoolAfterPass(old, new, hit, muzzle, scr) ==
    \A i \in 1..Len(old) :
        /\ i \in hit => (~new[i].is_visible \/ new[i].body.position = muzzle)
        /\ (old[i].is_visible /\ i \notin hit /\ Inside(Advanced(old[i]), scr)) =>
              /\ new[i].is_visible
              /\ new[i].body.position = Advanced(old[i])

\* What a Combat tick with the keys `pressed` held does by collisions.  The
\* player's bullets meet the enemy where the last tick left it; the enemy's
\* bullets meet the player, unless this tick has removed it, where the keys
\* have moved it.
CollisionEffects(pressed) ==
    LET moved == MoveByKeys(player, <<"W", "S", "A", "D">>, pressed)
        byPlayer == IF IsSome(player) /\ IsSome(enemy)
                    THEN Colliding(Bullets(player), Unwrap(enemy).body.position,
                                   EnemyHitbox)
                    ELSE {}
        stays == IsSome(player) /\ IsAlive(Unwrap(player).health)
        byEnemy == IF stays /\ IsSome(enemy)
                   THEN Colliding(Bullets(enemy), Unwrap(moved).body.position,
                                  PlayerHitbox)
                   ELSE {}
    IN /\ IsSome(player') <=> stays
       /\ IsSome(player') =>
             /\ Unwrap(player').health.health =
                   SaturatingSub(Unwrap(player).health.health, Cardinality(byEnemy))
             /\ PoolAfterPass(Bullets(player), Bullets(player'), byPlayer,
                              Unwrap(player').body.position, screen)
       /\ IsSome(enemy') <=>
             (IsSome(enemy) /\ Unwrap(enemy).health.health > Cardinality(byPlayer))
       /\ IsSome(enemy') =>
             /\ Unwrap(enemy').health.health =
                   Unwrap(enemy).health.health - Cardinality(byPlayer)
             /\ PoolAfterPass(Bullets(enemy), Bullets(enemy'), byEnemy,
                              Unwrap(enemy').body.position, screen)

\* C14: in a Combat tick a visible bullet, once advanced, hits the opposing
\* entity iff that entity is present and the bullet is strictly closer to it
\* than the target's hitbox radius (25 for the player, 100 for the enemy; a
\* distance equal to the radius is no hit); each hit takes one point of health
\* and hides the bullet in the same tick, so that it cannot hit again unless
\* it is spawned again.
C14_CollisionResolution ==
    [][\A pressed \in KeySets :
          (gamestate = "Combat" /\ ticks' = ticks + 1
             /\ \E delta \in Deltas : Update(delta, pressed, None))
          => CollisionEffects(pressed)]_vars

\* A player bullet is exactly 100 away from the enemy and has not hit it,
\* while an enemy bullet has hit the player.
C14_Witness ==
    /\ gamestate = "Combat"
    /\ IsSome(player)
    /\ IsSome(enemy)
    /\ Unwrap(enemy).health.health = Unwrap(enemy).health.max_health
    /\ Unwrap(player).health.health < Unwrap(player).health.max_health
    /\ \E i \in 1..Len(Bullets(player)) :
          /\ Bullets(player)[i].is_visible
          /\ DistanceSq(Bullets(player)[i].body.position, Unwrap(enemy).body.position)
                = EnemyHitbox * EnemyHitbox

----------------------------------------------------------------------------
(* The health harness: the game without keys held, and take_damage called  *)
(* on the entities with any amount                                         *)

\* Combat ticks of the harness.
HealthTicks == 4
\* player health 2, pool 1, bullet speed 150; enemy health 3, speed 0, pool 1,
\* bullet speed 250.
HealthScript == GoodScript(2, 1, 150, 3, 0, 1, 250)
\* The amounts take_damage is called with.
Damages == {0, 1, 2, 5}

HealthInit ==
    /\ Built(HealthScript)
    /\ timer = TimerNew(0)
    /\ fired = 0
    /\ elapsed = 0

\* player.health.take_damage(damage)
DamagePlayer(damage) ==
    /\ status = "running"
    /\ IsSome(player)
    /\ player' = Some([Unwrap(player) EXCEPT !.health = TakeDamage(@, damage)])
    /\ UNCHANGED <<uis, last_update, gamestate, story, screen, enemy, texts,
                   particles, script, script_date, status, ticks>>
    /\ UNCHANGED timervars

\* enemy.health.take_damage(damage)
DamageEnemy(damage) ==
    /\ status = "running"
    /\ IsSome(enemy)
    /\ enemy' = Some([Unwrap(enemy) EXCEPT !.health = TakeDamage(@, damage)])
    /\ UNCHANGED <<uis, last_update, gamestate, story, screen, player, texts,
                   particles, script, script_date, status, ticks>>
    /\ UNCHANGED timervars

HealthNext ==
    \/ KeyDownEvent("Return", FALSE)
    \/ \E delta \in Deltas : ticks < HealthTicks /\ Update(delta, {}, None)
    \/ \E damage \in Damages : DamagePlayer(damage)
    \/ \E damage \in Damages : DamageEnemy(damage)

SpecHealth == HealthInit /\ [][HealthNext]_vars

----------------------------------------------------------------------------
(* C15 *)

\* The Health of an entity is within its range.
HealthInRange(e) ==
    /\ Unwrap(e).health.health \in Nat
    /\ Unwrap(e).health.health <= Unwrap(e).health.max_health

\* C15: whatever the ticks and the take_damage calls, the health of an entity
\* never rises, never drops below zero (the damage saturates) and never
\* exceeds its maximum, which does not change.
C15_HealthMonotone ==
    /\ []((IsSome(player) => HealthInRange(player))
            /\ (IsSome(enemy) => HealthInRange(enemy)))
    /\ [][/\ (IsSome(player) /\ IsSome(player')) =>
                /\ Unwrap(player').health.health <= Unwrap(player).health.health
                /\ Unwrap(player').health.max_health = Unwrap(player).health.max_health
          /\ (IsSome(enemy) /\ IsSome(enemy')) =>
                /\ Unwrap(enemy').health.health <= Unwrap(enemy).health.health
                /\ Unwrap(enemy').health.max_health = Unwrap(enemy).health.max_health]_vars

\* Both entities are still present with their health used up, in a fight in
\* which bullets are in flight.
C15_Witness ==
    /\ gamestate = "Combat"
    /\ ticks > 0
    /\ IsSome(player)
    /\ IsSome(enemy)
    /\ Unwrap(player).health.health = 0
    /\ Unwrap(enemy).health.health = 0
    /\ AnyVisible(player)
    /\ AnyVisible(enemy)

----------------------------------------------------------------------------
(* C16 *)

\* The window is resized.
ResizeStep(size) == ResizeEvent(size)

\* C16: a resize event stores the new width and height and changes nothing
\* else: not the game state, the story, the entities with their health,
\* bullet slots and timers, the particles, the messages or the menus.
C16_ResizeOnlyScreen ==
    [][\A size \in WindowSizes :
          ResizeStep(size) =>
              /\ screen' = [width |-> size.width, height |-> size.height]
              /\ UNCHANGED <<uis, gamestate, story, player, enemy, texts,
                             particles, last_update, status>>]_vars

\* The window has been resized in the middle of a fight: bullets in flight,
\* particles and a message on the screen.
C16_Witness ==
    /\ screen # DefaultSize
    /\ gamestate = "Combat"
    /\ status = "running"
    /\ ticks > 0
    /\ texts # <<>>
    /\ particles # <<>>
    /\ IsSome(enemy)
    /\ AnyVisible(enemy)

----------------------------------------------------------------------------
(* C17 *)

\* The roster a Combat tick leaves when its passes run in the order: enemy
\* movement, enemy bullets against the player, enemy spawn, player bullets
\* against the enemy, player spawn, and only then the removal of the dead.
RosterInStatedOrder(delta, pressed) ==
    LET p0 == MoveByKeys(player, <<"W", "S", "A", "D">>, pressed)
        byEnemy == IF IsSome(enemy)
                   THEN EnemyUpdate(Unwrap(enemy), delta, p0, screen)
                   ELSE [self |-> <<>>, other |-> p0]
        e1 == IF IsSome(enemy) THEN Some(byEnemy.self) ELSE None
        p1 == byEnemy.other
        byPlayer == IF IsSome(p1)
                    THEN PlayerUpdate(Unwrap(p1), delta, e1)
                    ELSE [self |-> <<>>, other |-> e1]
        p2 == IF IsSome(p1) THEN Some(byPlayer.self) ELSE None
        e2 == byPlayer.other
    IN [player |-> IF IsSome(p2) /\ ~IsAlive(Unwrap(p2).health) THEN None ELSE p2,
        enemy |-> IF IsSome(e2) /\ ~IsAlive(Unwrap(e2).health) THEN None ELSE e2]

\* C17: a Combat tick runs the enemy's movement, the enemy's bullets against
\* the player, the enemy's spawn, the player's bullets against the enemy, the
\* player's spawn, the removal of the dead of both sides and the aging of the
\* particles, in this order; both collision passes are over before an entity
\* is removed.
C17_StatedOrder ==
    [][\A delta \in Deltas, pressed \in KeySets :
          (gamestate = "Combat" /\ ticks' = ticks + 1
             /\ Update(delta, pressed, None))
          => /\ player' = RosterInStatedOrder(delta, pressed).player
             /\ enemy' = RosterInStatedOrder(delta, pressed).enemy]_vars

----------------------------------------------------------------------------
(* The edges of the screen: a fight with slow and with fast player bullets *)
(* in a window that is resized                                            *)

\* Combat ticks explored.
EdgeTicks == 5
\* player health 3, pool 2; enemy health 3, speed 0, pool 1, bullet speed 250.
\* A player bullet of speed 20 stays near the player, one of speed 400 leaves
\* the screen at the top without coming near the enemy.
EdgeScripts == { GoodScript(3, 2, speed, 3, 0, 1, 250) : speed \in {20, 400} }

EdgeInit ==
    /\ \E s \in EdgeScripts : Built(s)
    /\ timer = TimerNew(0)
    /\ fired = 0
    /\ elapsed = 0

EdgeNext ==
    \/ KeyDownEvent("Return", FALSE)
    \/ \E size \in WindowSizes : ResizeEvent(size)
    \/ \E delta \in Deltas : ticks < EdgeTicks /\ Update(delta, {}, None)

SpecEdge == EdgeInit /\ [][EdgeNext]_vars

----------------------------------------------------------------------------
(* C18 *)

\* A point above the top or below the bottom of the play area.
BeyondVertical(p, scr) == p.y < 0 \/ p.y > scr.height

\* Every slot of `old` that was visible and, advanced, is beyond the top or
\* the bottom of the screen is hidden in `new`, unless spawn has put it back
\* at `muzzle` in the same tick.
RetiredBeyond(old, new, muzzle, scr) ==
    \A i \in 1..Len(old) :
        (old[i].is_visible /\ BeyondVertical(Advanced(old[i]), scr)) =>
            (~new[i].is_visible \/ new[i].body.position = muzzle)

\* C18: a bullet of either side that is visible in a Combat tick and, once
\* advanced, has y < 0 or y > screen.height is hidden at the end of that
\* tick, whether it collided or not.
C18_RetiredBeyondEdges ==
    [][(gamestate = "Combat" /\ ticks' = ticks + 1) =>
          /\ (IsSome(player) /\ IsSome(player')) =>
                RetiredBeyond(Bullets(player), Bullets(player'),
                              Unwrap(player').body.position, screen)
          /\ (IsSome(enemy) /\ IsSome(enemy')) =>
                RetiredBeyond(Bullets(enemy), Bullets(enemy'),
                              Unwrap(enemy').body.position, screen)]_vars

----------------------------------------------------------------------------
(* C19 *)

\* The pattern Enemy::new starts from.
InitialPattern == EnemyNew(0, 0, BulletNew(DIR_DOWN, 0), 0).directions

\* v turned left by n positions: the element at i comes from i + n.
Turned(v, n) == [i \in 1..Len(v) |-> v[((i - 1 + n) % Len(v)) + 1]]

\* The movement timer of the duel fires in every third tick: two deltas stay
\* within 1.5 s, three exceed it.
DuelTurns(t) == t \div 3

\* What a Combat tick of `delta` does to an enemy it does not remove.
MoveEffect(delta) ==
    LET old == Unwrap(enemy)
        new == Unwrap(enemy')
        due == old.move_timer.time + delta > old.move_timer.delay
    IN /\ new.directions = IF due THEN Turned(old.directions, 1) ELSE old.directions
       /\ new.body.position.x =
             old.body.position.x + new.directions[1] * old.body.speed
       /\ new.body.position.y = old.body.position.y

\* C19: the direction sequence is turned left by exactly one position each
\* time the movement timer fires and is otherwise unchanged, so it is always
\* a rotation of the initial pattern and is back in the initial order after
\* as many firings as it has elements; in a tick the enemy moves horizontally
\* by the front element (after the rotation of that tick, if any) times its
\* speed, and its y never changes.
C19_PatternRotates ==
    /\ [][\A delta \in DuelDeltas :
            (gamestate = "Combat" /\ IsSome(enemy) /\ IsSome(enemy')
               /\ DuelTick(delta))
            => MoveEffect(delta)]_vars
    /\ [](IsSome(enemy) =>
            /\ Unwrap(enemy).directions
                  = Turned(InitialPattern, DuelTurns(ticks) % Len(InitialPattern))
            /\ DuelTurns(ticks) % Len(InitialPattern) = 0
                  <=> Unwrap(enemy).directions = InitialPattern
            /\ Unwrap(enemy).body.position.y = 100)

\* The timer has fired eight times, the pattern is back in its initial order
\* and the enemy is drifting left again.
C19_Witness ==
    /\ IsSome(enemy)
    /\ DuelTurns(ticks) = Len(InitialPattern)
    /\ Unwrap(enemy).move_timer.time > 0
    /\ Unwrap(enemy).directions = InitialPattern
    /\ Unwrap(enemy).body.position.x < 350

----------------------------------------------------------------------------
(* The aging of the particles: fights that may be paused, resumed and      *)
(* restarted for ever, the host calling update in every frame              *)

\* Combat ticks explored after one State::new once no particle is left.
AgingTicks == 4
\* Frame deltas (ms): five of the first make up the time-to-live of 2 s
\* exactly, three of the second exceed it.
AgingDeltas == {400, 700}
\* player health 1, pool 2, bullet speed 150; enemy health 1 or 3, speed 0,
\* pool 1, bullet speed 250.
AgingScripts == { GoodScript(1, 2, 150, health, 0, 1, 250) : health \in {1, 3} }
\* Confirm, pause (and resume, by confirm) and restart.
AgingKeys == {"Return", "Escape", "R"}

AgingInit ==
    /\ \E s \in AgingScripts : Built(s)
    /\ timer = TimerNew(0)
    /\ fired = 0
    /\ elapsed = 0

\* A host tick: State::update, no key held.  Ticks go on while a particle is
\* left.
AgingTick ==
    \E delta \in AgingDeltas :
        /\ ticks < AgingTicks \/ particles # <<>>
        /\ Update(delta, {}, None)

AgingNext ==
    \/ AgingTick
    \/ \E key \in AgingKeys : KeyDownEvent(key, FALSE)

\* A step in which on_combat_update has run: the steps of AgingTick taken in
\* Combat are those that count a tick.
CombatTick ==
    /\ status = "running"
    /\ gamestate = "Combat"
    /\ ticks < AgingTicks \/ particles # <<>>
    /\ ticks' = ticks + 1

\* The engine's loop calls update in every frame: a Combat tick that stays
\* possible is taken.
SpecAging == AgingInit /\ [][AgingNext]_vars /\ WF_ticks(CombatTick)

----------------------------------------------------------------------------
(* C20 *)

\* What a Combat tick of `delta` does to the particles it finds: those whose
\* accumulated time now exceeds their time-to-live are gone, the others have
\* aged and moved and come first, in their order; what follows them is new.
AgingEffect(delta) ==
    LET Lasts(p) == p.timer.time + delta <= p.timer.delay
        kept == SelectSeq(particles, Lasts)
    IN /\ Len(particles') >= Len(kept)
       /\ \A i \in 1..Len(kept) :
             /\ particles'[i].timer.time = kept[i].timer.time + delta
             /\ particles'[i].timer.delay = kept[i].timer.delay
             /\ particles'[i].bullet.body.position = Advanced(kept[i].bullet)
       /\ \A i \in (Len(kept) + 1)..Len(particles') :
             particles'[i].timer.time = delta

\* C20: a particle is removed in the first Combat tick in which its
\* accumulated time exceeds its time-to-live, and not before; so if Combat
\* ticks keep occurring (their deltas are positive) every particle is
\* eventually removed; and the list never holds more than eight particles.
C20_ParticlesExpire ==
    /\ [][\A delta \in AgingDeltas :
            (gamestate = "Combat" /\ ticks' = ticks + 1 /\ Update(delta, {}, None))
            => AgingEffect(delta)]_vars
    /\ [](/\ Len(particles) <= 8
          /\ \A i \in 1..Len(particles) :
                /\ particles[i].bullet.is_visible
                /\ particles[i].timer.time > 0
                /\ particles[i].timer.time <= particles[i].timer.delay)
    /\ ([]<><<CombatTick>>_ticks) => ((particles # <<>>) ~> (particles = <<>>))

\* Both entities have been removed and all eight particles have gone.
C20_Witness ==
    /\ gamestate = "Combat"
    /\ Len(texts) = 2
    /\ particles = <<>>

----------------------------------------------------------------------------
(* C21 *)

\* The player and the enemy have both been removed.
BothRemoved == player = None /\ enemy = None

\* C21 as stated: within one run the message list never holds both terminal
\* messages and the two entities are never both removed.
C21_OutcomesExclusive ==
    /\ ~(Mentions(MsgDied) /\ Mentions(MsgWin))
    /\ ~BothRemoved

\* The number of messages equal to msg.
Count(msg) == Cardinality({i \in 1..Len(texts) : texts[i] = msg})

\* C21, amended: each terminal message is in the list exactly when its entity
\* has been removed, and at most once; both entities can be removed in one
\* run, but an entity whose health is positive when the other side is gone
\* is never removed and never hurt in that run, and a player left with health
\* zero when the enemy is gone is removed by the next Combat tick.
C21_OutcomesOnce ==
    /\ [](/\ Mentions(MsgDied) <=> player = None
          /\ Mentions(MsgWin) <=> enemy = None
          /\ Count(MsgDied) <= 1
          /\ Count(MsgWin) <= 1
          /\ Len(texts) = Count(MsgDied) + Count(MsgWin))
    /\ [][(gamestate = "Combat" /\ ticks' = ticks + 1) =>
            /\ (player = None /\ IsSome(enemy) /\ IsAlive(Unwrap(enemy).health))
                  => (IsSome(enemy') /\ Unwrap(enemy').health = Unwrap(enemy).health)
            /\ (enemy = None /\ IsSome(player) /\ IsAlive(Unwrap(player).health))
                  => (IsSome(player') /\ Unwrap(player').health = Unwrap(player).health)
            /\ (enemy = None /\ IsSome(player) /\ ~IsAlive(Unwrap(player).health))
                  => player' = None
         ]_vars

\* Both entities are gone, the enemy first: the list reads win, then died.
C21_Witness ==
    /\ BothRemoved
    /\ texts = <<MsgWin, MsgDied>>

----------------------------------------------------------------------------
(* C22 *)

\* A key of the menu navigation goes down while the game is paused.
NavStep ==
    \E key \in NextKeys \cup PrevKeys, repeated \in BOOLEAN :
        gamestate = "Paused" /\ KeyDownEvent(key, repeated)

\* The pause menu turned by any number of navigation keys.
Turns(m) == {m, RotateFront(m), RotateBack(m)}

\* Everything but the game state and the menu stack.
Simulation == <<last_update, story, screen, player, enemy, texts, particles,
                script, script_date, status, ticks>>

\* C22: Combat implies an empty story queue and Cinematic a non-empty one, so
\* pausing from Cinematic or Combat and then selecting Resume, after any menu
\* navigation, returns to the game state that was active before the pause,
\* with the story, the entities, their pools and timers and the particles
\* unchanged and the menu stack empty again.  Step by step: the pause keeps
\* the simulation and leaves a state that Resume maps back to the state
\* paused from; navigation keeps the simulation and what Resume maps to; and
\* Resume goes there.
C22_PauseResumeRoundTrip ==
    /\ [](/\ gamestate = "Combat" => story = <<>>
          /\ gamestate = "Cinematic" => story # <<>>
          /\ gamestate # "Paused" => uis = <<>>
          /\ gamestate = "Paused" => (Len(uis) = 1 /\ uis[1] \in Turns(PauseMenu)))
    /\ [][(gamestate # "Paused" /\ EscapeStep) =>
            /\ gamestate' = "Paused"
            /\ ResumeState(story') = gamestate
            /\ Tail(uis') = uis
            /\ Head(uis'[1]) = "Resume"
            /\ UNCHANGED Simulation]_vars
    /\ [][NavStep =>
            /\ gamestate' = "Paused"
            /\ ResumeState(story') = ResumeState(story)
            /\ Tail(uis') = Tail(uis)
            /\ UNCHANGED Simulation]_vars
    /\ [][SelectStep("Resume") =>
            /\ gamestate' = ResumeState(story)
            /\ uis' = <<>>
            /\ UNCHANGED Simulation]_vars

\* A fight paused with particles in flight; the menu has been turned and is
\* back on Resume.
C22_Witness ==
    /\ gamestate = "Paused"
    /\ status = "running"
    /\ uis = <<PauseMenu>>
    /\ story = <<>>
    /\ particles # <<>>

====
